---- MODULE Spec2Model ----
(***************************************************************************)
(* Model of the matching/synthesis core of runson                          *)
(* (src/src/runson/core/matching.py, synthesis.py, inference.py).          *)
(*                                                                         *)
(* A Python str is a sequence of one-character strings, so that rstrip,    *)
(* lower, split, startswith, the regular expression of                     *)
(* matches_family_pattern and the ordering used by sorted() are computed   *)
(* character by character.  An optional value (None or v) is <<>> or <<v>>.*)
(* The strings the code only compares or returns whole (architectures,     *)
(* categories, runner names) are plain strings.                            *)
(***************************************************************************)
EXTENDS Integers, Sequences, FiniteSets, TLC

VARIABLES
    pc,         \* "start" before the call under study, "done" after it returned
    selected,   \* synthesize_globs: the selected instances (list of dicts)
    universe,   \* synthesize_globs: the reference universe (list of dicts)
    budget,     \* synthesize_globs: budget, None or a price
    nvme,       \* synthesize_globs: nvme, None or a boolean
    result,     \* synthesize_globs: the local list `result` (candidates, in emission order)
    final,      \* synthesize_globs: the returned list `final`
    api_name,   \* matches_family_pattern: the instance name
    pattern,    \* matches_family_pattern: the pattern
    matched,    \* matches_family_pattern: the returned boolean
    called,     \* the function called ("" before the call), for the other functions
    args,       \* the arguments of that call, a record with the parameter names
    ret,        \* the value it returned
    raised      \* the exception it raised, "" when it returned

vars ==
    <<pc, selected, universe, budget, nvme, result, final, api_name, pattern,
      matched, called, args, ret, raised>>

----------------------------------------------------------------------------
(* Bounds of the model.                                                    *)

MaxInstances == 3
MaxNameLen == 3
MaxPatternLen == 3
MaxFilterLen == 2
MaxRunners == 2
MaxPriceLen == 3
MaxVal == 3
MaxInferLen == 4
MaxTableLen == 2
MaxRefineLen == 3
MaxGlobLen == 3

----------------------------------------------------------------------------
(* Characters and the Python str operations the code uses.                 *)

Digits == <<"0", "1", "2", "3", "4", "5", "6", "7", "8", "9">>

UpperCase ==
    <<"A", "B", "C", "D", "E", "F", "G", "H", "I", "J", "K", "L", "M",
      "N", "O", "P", "Q", "R", "S", "T", "U", "V", "W", "X", "Y", "Z">>

LowerCase ==
    <<"a", "b", "c", "d", "e", "f", "g", "h", "i", "j", "k", "l", "m",
      "n", "o", "p", "q", "r", "s", "t", "u", "v", "w", "x", "y", "z">>

\* The characters of the model in code point order: '*' (42) < '-' (45) <
\* '.' (46) < digits < upper-case letters < lower-case letters.
Alphabet == <<"*", "-", ".">> \o Digits \o UpperCase \o LowerCase

CharSet == {Alphabet[i] : i \in DOMAIN Alphabet}

\* Rank of a character in code point order (what str comparison compares).
Code == [c \in CharSet |-> CHOOSE i \in DOMAIN Alphabet : Alphabet[i] = c]

\* str.lower() on one character.
ToLower ==
    [c \in CharSet |->
        IF \E i \in DOMAIN UpperCase : UpperCase[i] = c
        THEN LowerCase[CHOOSE i \in DOMAIN UpperCase : UpperCase[i] = c]
        ELSE c]

\* str.lower()
Lower(s) == [i \in 1..Len(s) |-> ToLower[s[i]]]

\* The character class [a-z0-9] under re.IGNORECASE.
IsAlnum(c) ==
    \/ \E i \in DOMAIN Digits : Digits[i] = c
    \/ \E i \in DOMAIN LowerCase : LowerCase[i] = ToLower[c]

\* "." in s
HasDot(s) == \E i \in 1..Len(s) : s[i] = "."

\* s.endswith("*")
EndsWithStar(s) == Len(s) > 0 /\ s[Len(s)] = "*"

\* s.rstrip("*"): every trailing '*' is removed.
RECURSIVE RStripStar(_)
RStripStar(s) ==
    IF EndsWithStar(s) THEN RStripStar(SubSeq(s, 1, Len(s) - 1)) ELSE s

\* s.startswith(p)
StartsWith(s, p) == Len(p) <= Len(s) /\ SubSeq(s, 1, Len(p)) = p

\* s[:n]
Take(s, n) == SubSeq(s, 1, IF n < Len(s) THEN n ELSE Len(s))

\* a < b for str: the first differing character decides, a proper prefix is less.
RECURSIVE StrLess(_, _)
StrLess(a, b) ==
    IF Len(b) = 0 THEN FALSE
    ELSE IF Len(a) = 0 THEN TRUE
    ELSE IF a[1] = b[1] THEN StrLess(Tail(a), Tail(b))
    ELSE Code[a[1]] < Code[b[1]]

\* sorted(S) for a set S of str.
RECURSIVE SortedSet(_)
SortedSet(S) ==
    IF S = {} THEN <<>>
    ELSE LET least == CHOOSE x \in S : \A y \in S \ {x} : StrLess(x, y)
         IN  <<least>> \o SortedSet(S \ {least})

\* set(seq)
ToSet(seq) == {seq[i] : i \in 1..Len(seq)}

\* The sequences over S of length at most n.
SeqsUpTo(S, n) == UNION {[1..k -> S] : k \in 0..n}

None == <<>>
Some(v) == <<v>>

\* inst.get("nvme", False): a record without the key counts as non-NVMe.
NvmeOf(inst) == IF inst.nvme = None THEN FALSE ELSE inst.nvme[1]

----------------------------------------------------------------------------
(* inference.py                                                            *)

\* s.split(".")[0]: the text before the first '.'.
RECURSIVE SplitDotFirst(_)
SplitDotFirst(s) ==
    IF Len(s) = 0 \/ s[1] = "." THEN <<>>
    ELSE <<s[1]>> \o SplitDotFirst(Tail(s))

get_family_prefix(name) ==
    IF HasDot(name) THEN SplitDotFirst(name) ELSE name

\* What a call produces: a returned value, or a raised exception.
Return(v) == [ret |-> v, raised |-> ""]

Raise(e) == [ret |-> <<>>, raised |-> e]

\* c in s, for a character c
Contains(s, c) == \E i \in 1..Len(s) : s[i] = c

\* s[n:]
Drop(s, n) == SubSeq(s, n + 1, Len(s))

\* Mutant of infer_arch: the AMD rule is tested before the ARM rule.
infer_arch_amd_first(name) ==
    LET family == Lower(get_family_prefix(name))
        suffix == Drop(family, 2)
    IN  IF Len(family) < 2 THEN "x86_64"
        ELSE IF Contains(suffix, "a") THEN "amd64"
        ELSE IF \/ Contains(suffix, "g")
                \/ StartsWith(family, <<"a", "1">>)
                \/ StartsWith(family, <<"t", "4", "g">>)
             THEN "arm64"
             ELSE "x86_64"

infer_arch(name) ==
    LET family == Lower(get_family_prefix(name))
        suffix == Drop(family, 2)
    IN  IF Len(family) < 2 THEN "x86_64"
        ELSE IF \/ Contains(suffix, "g")
                \/ StartsWith(family, <<"a", "1">>)
                \/ StartsWith(family, <<"t", "4", "g">>)
             THEN "arm64"
             ELSE IF Contains(suffix, "a") THEN "amd64"
                  ELSE "x86_64"

\* The dict `categories` of get_instance_category.
categories ==
    [c |-> "compute", m |-> "general", r |-> "memory", t |-> "burstable",
     i |-> "storage", x |-> "memory", z |-> "high-freq", g |-> "gpu",
     p |-> "gpu", h |-> "storage", d |-> "storage", f |-> "fpga",
     v |-> "video"]

\* Mutant of get_instance_category: the table is consulted before the
\* multi-character prefixes.
get_instance_category_table_first(name) ==
    LET family == Lower(get_family_prefix(name))
    IN  IF Len(family) = 0 THEN Raise("IndexError")
        ELSE LET prefix == family[1]
             IN  IF prefix \in DOMAIN categories THEN Return(categories[prefix])
                 ELSE IF StartsWith(family, <<"i", "n", "f">>)
                      THEN Return("ml-inference")
                 ELSE IF StartsWith(family, <<"a", "1">>) THEN Return("general")
                 ELSE Return("other")

\* family[0] raises IndexError on the empty family, before anything is returned.
get_instance_category(name) ==
    LET family == Lower(get_family_prefix(name))
    IN  IF Len(family) = 0 THEN Raise("IndexError")
        ELSE LET prefix == family[1]
             IN  IF StartsWith(family, <<"i", "n", "f">>) THEN Return("ml-inference")
                 ELSE IF StartsWith(family, <<"a", "1">>) THEN Return("general")
                 ELSE IF prefix \in DOMAIN categories
                      THEN Return(categories[prefix])
                      ELSE Return("other")

----------------------------------------------------------------------------
(* matching.py                                                             *)

\* The tail [a-z0-9]*\. of the regular expression, matched from position i.
RECURSIVE MatchClassThenDot(_, _)
MatchClassThenDot(name, i) ==
    /\ i <= Len(name)
    /\ \/ name[i] = "."
       \/ IsAlnum(name[i]) /\ MatchClassThenDot(name, i + 1)

\* Mutant of RegexMatch: the flag re.IGNORECASE is missing, so the literal part
\* and the class [a-z0-9] are case-sensitive.
RegexMatch_case_sensitive(clean, name) ==
    LET RECURSIVE ClassThenDot(_)
        ClassThenDot(i) ==
            /\ i <= Len(name)
            /\ \/ name[i] = "."
               \/ /\ name[i] \in {Digits[k] : k \in DOMAIN Digits}
                                  \cup {LowerCase[k] : k \in DOMAIN LowerCase}
                  /\ ClassThenDot(i + 1)
    IN  /\ Len(clean) <= Len(name)
        /\ \A i \in 1..Len(clean) : name[i] = clean[i]
        /\ ClassThenDot(Len(clean) + 1)

\* re.match(rf"^{re.escape(clean)}[a-z0-9]*\.", name, re.IGNORECASE)
RegexMatch(clean, name) ==
    /\ Len(clean) <= Len(name)
    /\ \A i \in 1..Len(clean) : ToLower[name[i]] = ToLower[clean[i]]
    /\ MatchClassThenDot(name, Len(clean) + 1)

\* Mutant of matches_family_pattern: the exact comparison is made without
\* lower().
matches_family_pattern_exact_case(name, pat) ==
    IF Len(name) = 0 THEN FALSE
    ELSE LET clean_pattern == RStripStar(pat)
         IN  IF HasDot(clean_pattern)
             THEN name = clean_pattern
             ELSE RegexMatch(clean_pattern, name)

\* Mutant of matches_family_pattern: one trailing '*' is removed, not all.
matches_family_pattern_strips_one(name, pat) ==
    IF Len(name) = 0 THEN FALSE
    ELSE LET clean_pattern == IF EndsWithStar(pat)
                              THEN SubSeq(pat, 1, Len(pat) - 1) ELSE pat
         IN  IF HasDot(clean_pattern)
             THEN Lower(name) = Lower(clean_pattern)
             ELSE RegexMatch(clean_pattern, name)

\* Mutant of matches_family_pattern: the guard on the empty name returns True.
matches_family_pattern_empty_matches(name, pat) ==
    IF Len(name) = 0 THEN TRUE
    ELSE LET clean_pattern == RStripStar(pat)
         IN  IF HasDot(clean_pattern)
             THEN Lower(name) = Lower(clean_pattern)
             ELSE RegexMatch(clean_pattern, name)

\* `not api_name` holds of the empty str and of None alike: the name <<>>
\* stands for both.
matches_family_pattern(name, pat) ==
    IF Len(name) = 0 THEN FALSE
    ELSE LET clean_pattern == RStripStar(pat)
         IN  IF HasDot(clean_pattern)
             THEN Lower(name) = Lower(clean_pattern)
             ELSE RegexMatch(clean_pattern, name)

\* Mutant of matches_any_pattern: all() in place of any().
matches_any_pattern_all(name, patterns) ==
    \A k \in 1..Len(patterns) : matches_family_pattern(name, patterns[k])

\* any(matches_family_pattern(api_name, p) for p in patterns)
matches_any_pattern(name, patterns) ==
    \E k \in 1..Len(patterns) : matches_family_pattern(name, patterns[k])

\* Mutant of Requirement.matches: the upper bound of a range is exclusive.
Requirement_matches_open_range(req, value) ==
    IF req.max_val = None
    THEN value = req.min_val
    ELSE req.min_val <= value /\ value < req.max_val[1]

\* cli/config.py, Requirement.matches: a Requirement is a record of min_val
\* and the optional max_val.
Requirement_matches(req, value) ==
    IF req.max_val = None
    THEN value = req.min_val
    ELSE req.min_val <= value /\ value <= req.max_val[1]

\* x in xs, for a list xs
InList(x, xs) == \E k \in 1..Len(xs) : xs[k] = x

\* Mutant of filter_keeps: a price equal to max_price is kept (> in place of >=).
filter_keeps_price_equal(inst, patterns, cpu, ram, arches, max_price, ebs_min, nv) ==
    IF patterns # None /\ ~matches_any_pattern(inst.api_name, patterns[1]) THEN FALSE
    ELSE IF cpu # None /\ ~Requirement_matches(cpu[1], inst.vcpus) THEN FALSE
    ELSE IF ram # None /\ ~Requirement_matches(ram[1], inst.memory_gb) THEN FALSE
    ELSE IF arches # None /\ ~InList(inst.arch, arches[1]) THEN FALSE
    ELSE IF max_price # None /\ (inst.price = None \/ inst.price[1] > max_price[1])
         THEN FALSE
    ELSE IF ebs_min # None /\ (inst.ebs_mbps = None \/ inst.ebs_mbps[1] < ebs_min[1])
         THEN FALSE
    ELSE IF nv # None /\ NvmeOf(inst) # nv[1] THEN FALSE
    ELSE TRUE

\* Mutant of filter_keeps: the pattern check is skipped when cpu is supplied.
filter_keeps_cpu_skips_patterns(inst, patterns, cpu, ram, arches, max_price, ebs_min, nv) ==
    IF patterns # None /\ cpu = None
          /\ ~matches_any_pattern(inst.api_name, patterns[1]) THEN FALSE
    ELSE IF cpu # None /\ ~Requirement_matches(cpu[1], inst.vcpus) THEN FALSE
    ELSE IF ram # None /\ ~Requirement_matches(ram[1], inst.memory_gb) THEN FALSE
    ELSE IF arches # None /\ ~InList(inst.arch, arches[1]) THEN FALSE
    ELSE IF max_price # None /\ (inst.price = None \/ inst.price[1] >= max_price[1])
         THEN FALSE
    ELSE IF ebs_min # None /\ (inst.ebs_mbps = None \/ inst.ebs_mbps[1] < ebs_min[1])
         THEN FALSE
    ELSE IF nv # None /\ NvmeOf(inst) # nv[1] THEN FALSE
    ELSE TRUE

\* Mutant of filter_keeps: an unknown price counts as 0 (inst["price"] or 0).
filter_keeps_unknown_price_zero(inst, patterns, cpu, ram, arches, max_price, ebs_min, nv) ==
    IF patterns # None /\ ~matches_any_pattern(inst.api_name, patterns[1]) THEN FALSE
    ELSE IF cpu # None /\ ~Requirement_matches(cpu[1], inst.vcpus) THEN FALSE
    ELSE IF ram # None /\ ~Requirement_matches(ram[1], inst.memory_gb) THEN FALSE
    ELSE IF arches # None /\ ~InList(inst.arch, arches[1]) THEN FALSE
    ELSE IF max_price # None /\ (IF inst.price = None THEN 0 ELSE inst.price[1]) >= max_price[1]
         THEN FALSE
    ELSE IF ebs_min # None /\ (inst.ebs_mbps = None \/ inst.ebs_mbps[1] < ebs_min[1])
         THEN FALSE
    ELSE IF nv # None /\ NvmeOf(inst) # nv[1] THEN FALSE
    ELSE TRUE

\* Body of the loop of filter_instances: TRUE when no `continue` is taken and
\* inst is appended to result.
filter_keeps(inst, patterns, cpu, ram, arches, max_price, ebs_min, nv) ==
    IF patterns # None /\ ~matches_any_pattern(inst.api_name, patterns[1]) THEN FALSE
    ELSE IF cpu # None /\ ~Requirement_matches(cpu[1], inst.vcpus) THEN FALSE
    ELSE IF ram # None /\ ~Requirement_matches(ram[1], inst.memory_gb) THEN FALSE
    ELSE IF arches # None /\ ~InList(inst.arch, arches[1]) THEN FALSE
    ELSE IF max_price # None /\ (inst.price = None \/ inst.price[1] >= max_price[1])
         THEN FALSE
    ELSE IF ebs_min # None /\ (inst.ebs_mbps = None \/ inst.ebs_mbps[1] < ebs_min[1])
         THEN FALSE
    ELSE IF nv # None /\ NvmeOf(inst) # nv[1] THEN FALSE
    ELSE TRUE

filter_instances(instances, patterns, cpu, ram, arches, max_price, ebs_min, nv) ==
    SelectSeq(instances,
              LAMBDA inst :
                  filter_keeps(inst, patterns, cpu, ram, arches, max_price, ebs_min, nv))

\* Mutant of runner_matches: the ram requirement is not checked.
runner_matches_ignores_ram(instance, config) ==
    IF ~matches_any_pattern(instance.api_name, config.families) THEN FALSE
    ELSE IF config.cpu # None /\ ~Requirement_matches(config.cpu[1], instance.vcpus)
         THEN FALSE
    ELSE TRUE

\* Body of the loop of find_matching_runners: TRUE when runner_name is appended.
\* config["families"] is a list, config["cpu"] and config["ram"] are optional.
runner_matches(instance, config) ==
    IF ~matches_any_pattern(instance.api_name, config.families) THEN FALSE
    ELSE IF config.cpu # None /\ ~Requirement_matches(config.cpu[1], instance.vcpus)
         THEN FALSE
    ELSE IF config.ram # None /\ ~Requirement_matches(config.ram[1], instance.memory_gb)
         THEN FALSE
    ELSE TRUE

\* runner_configs is a dict: here the list of its items <<runner_name, config>>
\* in iteration (insertion) order, the names distinct.
find_matching_runners(instance, runner_configs) ==
    LET matching == SelectSeq(runner_configs,
                              LAMBDA item : runner_matches(instance, item[2]))
    IN  [k \in 1..Len(matching) |-> matching[k][1]]

\* list.sort(key=lambda x: x["price"]): a stable sort, the instances of equal
\* price keep their order.
RECURSIVE SortByPrice(_)
SortByPrice(seq) ==
    IF Len(seq) = 0 THEN <<>>
    ELSE LET before == SortByPrice(SubSeq(seq, 1, Len(seq) - 1))
             x == seq[Len(seq)]
             k == Cardinality({i \in 1..Len(before) :
                                  before[i].price[1] <= x.price[1]})
         IN  SubSeq(before, 1, k) \o <<x>> \o SubSeq(before, k + 1, Len(before))

\* runner_config.get("families", []): the optional key, [] when absent.
FamiliesOf(runner_config) ==
    IF runner_config.families = None THEN <<>> ELSE runner_config.families[1]

\* The list `matching` of get_runner_price_range before it is sorted.
price_range_matching(runner_config, instances) ==
    LET families == FamiliesOf(runner_config)
        cpu_req == runner_config.cpu
        ram_req == runner_config.ram
    IN  SelectSeq(instances,
            LAMBDA inst :
                IF ~matches_any_pattern(inst.api_name, families) THEN FALSE
                ELSE IF cpu_req # None /\ ~Requirement_matches(cpu_req[1], inst.vcpus)
                     THEN FALSE
                ELSE IF ram_req # None
                        /\ ~Requirement_matches(ram_req[1], inst.memory_gb)
                     THEN FALSE
                ELSE inst.price # None)

\* Mutant of get_runner_price_range: the most expensive instance is the first
\* of the greatest price, not the last.
get_runner_price_range_first_max(runner_config, instances) ==
    LET families == FamiliesOf(runner_config)
    IN  IF Len(families) = 0 THEN <<None, None, None, None>>
        ELSE LET matching == price_range_matching(runner_config, instances)
             IN  IF Len(matching) = 0 THEN <<None, None, None, None>>
                 ELSE LET sorted == SortByPrice(matching)
                          cheapest == sorted[1]
                          top == sorted[Len(sorted)].price
                          most_expensive ==
                              sorted[CHOOSE i \in 1..Len(sorted) :
                                         /\ sorted[i].price = top
                                         /\ \A j \in 1..(i - 1) : sorted[j].price # top]
                      IN  <<cheapest.price, most_expensive.price,
                            Some(cheapest.api_name), Some(most_expensive.api_name)>>

\* The tuple (min_price, max_price, min_instance_name, max_instance_name).
get_runner_price_range(runner_config, instances) ==
    LET families == FamiliesOf(runner_config)
    IN  IF Len(families) = 0 THEN <<None, None, None, None>>
        ELSE LET matching == price_range_matching(runner_config, instances)
             IN  IF Len(matching) = 0 THEN <<None, None, None, None>>
                 ELSE LET sorted == SortByPrice(matching)
                          cheapest == sorted[1]
                          most_expensive == sorted[Len(sorted)]
                      IN  <<cheapest.price, most_expensive.price,
                            Some(cheapest.api_name), Some(most_expensive.api_name)>>

----------------------------------------------------------------------------
(* synthesis.py                                                            *)

\* max(prices) for a non-empty set of prices.
MaxOf(S) == CHOOSE x \in S : \A y \in S : y <= x

\* The concatenation of a sequence of sequences, in order.
RECURSIVE Flatten(_)
Flatten(ss) == IF Len(ss) = 0 THEN <<>> ELSE Head(ss) \o Flatten(Tail(ss))

\* Mutant of PrefixKey: family[:1] in place of family[:2].
PrefixKey_one_char(inst) == Take(get_family_prefix(inst.api_name), 1)

PrefixKey(inst) == Take(get_family_prefix(inst.api_name), 2)

VariantKey(inst) == get_family_prefix(inst.api_name)

\* What by_prefix.setdefault(prefix, []).append(inst) collects under the key p:
\* the instances of seq with that prefix, in the order of seq.
PrefixGroup(seq, p) == SelectSeq(seq, LAMBDA inst : PrefixKey(inst) = p)

\* What variants.setdefault(variant, []).append(inst) collects under the key v.
VariantGroup(seq, v) == SelectSeq(seq, LAMBDA inst : VariantKey(inst) = v)

\* by_prefix: the selected instances grouped by the first two characters of the family.
by_prefix(sel) ==
    [p \in {PrefixKey(sel[i]) : i \in 1..Len(sel)} |-> PrefixGroup(sel, p)]

\* Mutant of max_price_for_glob_in_selected: min(prices) in place of max(prices).
max_price_for_glob_in_selected_min(glob, sel) ==
    LET matches == SelectSeq(sel, LAMBDA i : matches_family_pattern(i.api_name, glob))
        prices == {matches[k].price[1] :
                      k \in {j \in 1..Len(matches) : matches[j].price # None}}
    IN  IF prices # {} THEN CHOOSE x \in prices : \A y \in prices : x <= y ELSE 0

max_price_for_glob_in_selected(glob, sel) ==
    LET matches == SelectSeq(sel, LAMBDA i : matches_family_pattern(i.api_name, glob))
        prices == {matches[k].price[1] :
                      k \in {j \in 1..Len(matches) : matches[j].price # None}}
    IN  IF prices # {} THEN MaxOf(prices) ELSE 0

\* Mutant of glob_matches_non_nvme_in_universe: all() in place of any().
glob_matches_non_nvme_in_universe_all(glob, uni) ==
    LET matches == SelectSeq(uni, LAMBDA i : matches_family_pattern(i.api_name, glob))
    IN  \A k \in 1..Len(matches) : ~NvmeOf(matches[k])

glob_matches_non_nvme_in_universe(glob, uni) ==
    LET matches == SelectSeq(uni, LAMBDA i : matches_family_pattern(i.api_name, glob))
    IN  \E k \in 1..Len(matches) : ~NvmeOf(matches[k])

\* Mutant of glob_is_valid: the nvme check is missing.
glob_is_valid_no_nvme(glob, sel, uni, bud, nv) ==
    IF bud # None /\ max_price_for_glob_in_selected(glob, sel) > bud[1]
    THEN FALSE
    ELSE TRUE

\* Mutant of glob_is_valid: the budget is checked against the universe as well.
glob_is_valid_budget_universe(glob, sel, uni, bud, nv) ==
    IF bud # None /\ max_price_for_glob_in_selected(glob, sel \o uni) > bud[1]
    THEN FALSE
    ELSE IF nv = Some(TRUE) /\ glob_matches_non_nvme_in_universe(glob, uni)
         THEN FALSE
         ELSE TRUE

glob_is_valid(glob, sel, uni, bud, nv) ==
    IF bud # None /\ max_price_for_glob_in_selected(glob, sel) > bud[1]
    THEN FALSE
    ELSE IF nv = Some(TRUE) /\ glob_matches_non_nvme_in_universe(glob, uni)
         THEN FALSE
         ELSE TRUE

\* Mutant of variant_candidates: the fallback appends the first instance only.
variant_candidates_first_literal(variant, variant_selected, sel, uni, bud, nv) ==
    LET variant_glob == variant \o <<"*">>
    IN  IF glob_is_valid(variant_glob, sel, uni, bud, nv)
        THEN <<variant_glob>>
        ELSE <<variant_selected[1].api_name>>

\* Body of the loop over sorted(variants.items()): what one variant appends.
variant_candidates(variant, variant_selected, sel, uni, bud, nv) ==
    LET variant_glob == variant \o <<"*">>
    IN  IF glob_is_valid(variant_glob, sel, uni, bud, nv)
        THEN <<variant_glob>>
        ELSE [k \in 1..Len(variant_selected) |-> variant_selected[k].api_name]

\* Body of the loop over sorted(by_prefix.items()): what one prefix group appends.
prefix_candidates(prefix, prefix_selected, sel, uni, bud, nv) ==
    LET prefix_glob == prefix \o <<"*">>
    IN  IF glob_is_valid(prefix_glob, sel, uni, bud, nv)
        THEN <<prefix_glob>>
        ELSE LET variants ==
                     [v \in {VariantKey(prefix_selected[i]) :
                                 i \in 1..Len(prefix_selected)}
                         |-> VariantGroup(prefix_selected, v)]
                 keys == SortedSet(DOMAIN variants)
             IN  Flatten([k \in 1..Len(keys) |->
                     variant_candidates(keys[k], variants[keys[k]], sel, uni, bud, nv)])

\* The local list `result` when the loop over the prefix groups has ended.
candidates(sel, uni, bud, nv) ==
    LET groups == by_prefix(sel)
        keys == SortedSet(DOMAIN groups)
    IN  Flatten([k \in 1..Len(keys) |->
            prefix_candidates(keys[k], groups[keys[k]], sel, uni, bud, nv)])

\* Mutant of _glob_subsumes: an exact name can be subsumed like a pattern.
_glob_subsumes_absorbs_literals(broader, narrower) ==
    IF ~EndsWithStar(broader) THEN FALSE
    ELSE LET broad_prefix == RStripStar(broader)
             narrow_prefix == RStripStar(narrower)
         IN  StartsWith(narrow_prefix, broad_prefix) /\ narrow_prefix # broad_prefix

\* Mutant of _glob_subsumes: the operands of startswith are exchanged.
_glob_subsumes_swapped(broader, narrower) ==
    IF ~EndsWithStar(broader) THEN FALSE
    ELSE IF HasDot(narrower) /\ ~EndsWithStar(narrower) THEN FALSE
    ELSE LET broad_prefix == RStripStar(broader)
             narrow_prefix == RStripStar(narrower)
         IN  StartsWith(broad_prefix, narrow_prefix) /\ narrow_prefix # broad_prefix

_glob_subsumes(broader, narrower) ==
    IF ~EndsWithStar(broader) THEN FALSE
    ELSE IF HasDot(narrower) /\ ~EndsWithStar(narrower) THEN FALSE
    ELSE LET broad_prefix == RStripStar(broader)
             narrow_prefix == RStripStar(narrower)
         IN  StartsWith(narrow_prefix, broad_prefix) /\ narrow_prefix # broad_prefix

\* Mutant of remove_subsumed: the subsumed globs are not removed.
remove_subsumed_keeps_all(res) == SortedSet(ToSet(res))

\* Mutant of remove_subsumed: the loop runs over `result` itself, neither
\* sorted nor deduplicated.
remove_subsumed_unsorted(res) ==
    LET Kept(glob) ==
            ~\E j \in 1..Len(res) :
                res[j] # glob /\ _glob_subsumes(res[j], glob)
    IN  SelectSeq(res, Kept)

\* unique = sorted(set(result)), then the loop that keeps the globs no other subsumes.
remove_subsumed(res) ==
    LET unique == SortedSet(ToSet(res))
        Kept(glob) ==
            ~\E j \in 1..Len(unique) :
                unique[j] # glob /\ _glob_subsumes(unique[j], glob)
    IN  SelectSeq(unique, Kept)

synthesize_globs(sel, uni, bud, nv) == remove_subsumed(candidates(sel, uni, bud, nv))

----------------------------------------------------------------------------
(* Inputs of the model.                                                    *)

\* Instance names of synthesize_globs, all of the form <letters/digits>.<size>:
\* three variants of the prefix m5 (one family extending another) and a
\* one-character family.
SynthNames ==
    { <<"m", "5", ".", "l">>,
      <<"m", "5", "d", ".", "l">>,
      <<"m", "5", "d", "n", ".", "l">>,
      <<"m", ".", "l">> }

\* Unknown, under the budget, over the budget.
Prices == {None, Some(1), Some(2)}

Budgets == {None, Some(1)}

OptBool == {None, Some(TRUE), Some(FALSE)}

\* The selected instances carry no "nvme" key of their own weight: the code
\* reads the flag of universe instances only.
SelectedPool == [api_name : SynthNames, price : Prices, nvme : {None}]

\* The universe instances are the dear ones: the code never reads their price.
UniversePool == [api_name : SynthNames, price : {Some(2)}, nvme : {Some(TRUE), Some(FALSE)}]

\* The pairs of lists that hold at most n instances together.
InputLists(n) ==
    UNION {SeqsUpTo(SelectedPool, k) \X SeqsUpTo(UniversePool, n - k) : k \in 0..n}

NameChars == {"r", "R", "7", ".", "-"}

PatternChars == {"r", "R", "7", ".", "*"}

\* Requirement(min_val) and Requirement(min_val, max_val)
Exact(n) == [min_val |-> n, max_val |-> None]

Range(lo, hi) == [min_val |-> lo, max_val |-> Some(hi)]

\* A row as load_instances builds it: 2 vCPUs, 8 GiB, known price and EBS
\* bandwidth, no local NVMe.
BaseInstance ==
    [api_name |-> <<"m", "5", ".", "l">>, vcpus |-> 2, memory_gb |-> 8,
     arch |-> "x86_64", price |-> Some(1), ebs_mbps |-> Some(2),
     nvme |-> Some(FALSE)]

\* Rows of other families and sizes: an NVMe variant of the family, and a
\* larger size of an arm64 family in a dict that has no "nvme" key.
OtherRows ==
    { [BaseInstance EXCEPT !.api_name = <<"m", "5", "d", ".", "l">>,
                           !.nvme = Some(TRUE)],
      [BaseInstance EXCEPT !.api_name = <<"c", "6", "g", ".", "x">>,
                           !.arch = "arm64", !.vcpus = 4, !.memory_gb = 16,
                           !.nvme = None] }

\* The instances of filter_instances: the rows above and the base row with an
\* unknown price, an unknown EBS bandwidth, or a dearer price and a smaller
\* bandwidth.
FilterPool ==
    {BaseInstance} \cup OtherRows \cup
    { [BaseInstance EXCEPT !.price = None],
      [BaseInstance EXCEPT !.ebs_mbps = None],
      [BaseInstance EXCEPT !.price = Some(2), !.ebs_mbps = Some(1)] }

\* patterns: None, the empty list, or two patterns of which the second matches
\* more names than the first.
PatternLists ==
    {None, Some(<<>>), Some(<< <<"m", "5", "d">>, <<"m", "5", "*">> >>)}

CpuReqs == {None, Some(Range(2, 3))}

RamReqs == {None, Some(Exact(8))}

ArchLists == {None, Some(<<"x86_64">>)}

\* max_price and ebs_min: None, zero, or a bound between the values of the rows.
MaxPrices == {None, Some(0), Some(2)}

EbsMins == {None, Some(0), Some(2)}

FilterArgs ==
    [instances : SeqsUpTo(FilterPool, MaxFilterLen), patterns : PatternLists,
     cpu : CpuReqs, ram : RamReqs, arches : ArchLists, max_price : MaxPrices,
     ebs_min : EbsMins, nvme : OptBool]

\* Runner configs as parse_runner_configs_from_data builds them.
FamilyLists ==
    { <<>>,
      << <<"m", "5", "d">>, <<"m", "5", "*">> >>,
      << <<"c", "6", "g", "*">> >> }

RunnerConfigs == [families : FamilyLists, cpu : CpuReqs, ram : RamReqs]

RunnerNames == {"general", "compute", "nvme"}

\* The items of a dict of at most n runners: the names are distinct.
RunnerItems(n) ==
    {items \in SeqsUpTo(RunnerNames \X RunnerConfigs, n) :
        \A i \in 1..Len(items) : \A j \in 1..Len(items) :
            i # j => items[i][1] # items[j][1]}

RunnerArgs ==
    [instance : {BaseInstance} \cup OtherRows, runner_configs : RunnerItems(MaxRunners)]

\* The runner config of get_runner_price_range: the key "families" may be absent.
PriceRangeConfigs ==
    [families : {None, Some(<<>>), Some(<< <<"m", "5", "*">> >>)},
     cpu : {None, Some(Exact(2))}, ram : {None, Some(Exact(16))}]

\* Three names at an unknown, a low and a high price, and the larger size.
PriceRangePool ==
    { [BaseInstance EXCEPT !.api_name = n, !.price = p] :
          n \in { <<"m", "5", ".", "l">>, <<"m", "5", "d", ".", "l">>,
                  <<"c", "6", "g", ".", "l">> },
          p \in Prices }
    \cup { [BaseInstance EXCEPT !.api_name = <<"m", "5", ".", "x">>,
                                !.vcpus = 4, !.memory_gb = 16] }

PriceRangeArgs ==
    [runner_config : PriceRangeConfigs,
     instances : SeqsUpTo(PriceRangePool, MaxPriceLen)]

RequirementArgs ==
    [min_val : 0..MaxVal, max_val : {None} \cup {Some(n) : n \in 0..MaxVal},
     value : 0..MaxVal]

InferChars == {"a", "g", "t", "4", "1", "i", "n", "f", ".", "G"}

InferArgs == [api_name : SeqsUpTo(InferChars, MaxInferLen)]

----------------------------------------------------------------------------
(* cli/config.py and cli/family.py                                         *)

\* Mutant of _infer_arch: the name is never cut at the '.'.
_infer_arch_whole_name(name) ==
    LET family == Lower(name)
        suffix == Drop(family, 2)
    IN  IF Len(family) < 2 THEN "x86_64"
        ELSE IF \/ Contains(suffix, "g")
                \/ StartsWith(family, <<"a", "1">>)
                \/ StartsWith(family, <<"t", "4", "g">>)
             THEN "arm64"
             ELSE IF Contains(suffix, "a") THEN "amd64"
                  ELSE "x86_64"

\* config._infer_arch: decided on the text before the first '.', or on the
\* whole name when it has none, lower-cased.
_infer_arch(name) ==
    LET family == IF HasDot(name) THEN Lower(SplitDotFirst(name))
                  ELSE Lower(name)
        suffix == Drop(family, 2)
    IN  IF Len(family) < 2 THEN "x86_64"
        ELSE IF \/ Contains(suffix, "g")
                \/ StartsWith(family, <<"a", "1">>)
                \/ StartsWith(family, <<"t", "4", "g">>)
             THEN "arm64"
             ELSE IF Contains(suffix, "a") THEN "amd64"
                  ELSE "x86_64"

\* str.strip() on a text whose only whitespace is ' '.
RECURSIVE Strip(_)
Strip(s) ==
    IF Len(s) > 0 /\ s[1] = " " THEN Strip(Tail(s))
    ELSE IF Len(s) > 0 /\ s[Len(s)] = " " THEN Strip(SubSeq(s, 1, Len(s) - 1))
    ELSE s

\* value.split(":", 1): the text before the first ':' and the text after it.
RECURSIVE BeforeColon(_)
BeforeColon(s) ==
    IF Len(s) = 0 \/ s[1] = ":" THEN <<>> ELSE <<s[1]>> \o BeforeColon(Tail(s))

AfterColon(s) == SubSeq(s, Len(BeforeColon(s)) + 2, Len(s))

\* int(s) succeeds on decimal digits with surrounding whitespace (the texts of
\* the model hold no sign and no underscore).
IsInt(s) ==
    /\ Len(Strip(s)) > 0
    /\ \A i \in 1..Len(Strip(s)) : \E d \in DOMAIN Digits : Digits[d] = Strip(s)[i]

DigitValue(c) == (CHOOSE d \in DOMAIN Digits : Digits[d] = c) - 1

RECURSIVE DecimalValue(_)
DecimalValue(s) ==
    IF Len(s) = 0 THEN 0
    ELSE 10 * DecimalValue(SubSeq(s, 1, Len(s) - 1)) + DigitValue(s[Len(s)])

IntOf(s) == DecimalValue(Strip(s))

parse_cli_requirement(value) ==
    IF Contains(value, ":")
    THEN LET min_str == Strip(BeforeColon(value))
             max_str == Strip(AfterColon(value))
         IN  IF Len(min_str) = 0 \/ Len(max_str) = 0 THEN Raise("ValueError")
             ELSE IF IsInt(min_str) /\ IsInt(max_str)
                  THEN Return(Range(IntOf(min_str), IntOf(max_str)))
                  ELSE Raise("ValueError")
    ELSE IF IsInt(value) THEN Return(Exact(IntOf(value)))
         ELSE Raise("ValueError")

\* runner in runner_configs, and runner_configs[runner], for a dict given by
\* its items.
HasRunner(runner_configs, runner) ==
    \E i \in 1..Len(runner_configs) : runner_configs[i][1] = runner

RunnerConfigOf(runner_configs, runner) ==
    runner_configs[CHOOSE i \in 1..Len(runner_configs) :
                       runner_configs[i][1] = runner][2]

\* The families of all runners, as one set.
all_patterns(runner_configs) ==
    UNION {ToSet(runner_configs[i][2].families) : i \in 1..Len(runner_configs)}

\* family: the parsing of --cpu and --mem; an option that is absent or empty is
\* not parsed, and a ValueError is turned into a ClickException.
cli_requirement(text) ==
    IF text = None \/ Len(text[1]) = 0 THEN Return(None)
    ELSE LET parsed == parse_cli_requirement(text[1])
         IN  IF parsed.raised # "" THEN Raise("ClickException")
             ELSE Return(Some(parsed.ret))

\* family: the choice of patterns, cpu_req and ram_req.  list(all_patterns) has
\* the order of a set; matches_any_pattern does not depend on the order, and the
\* model takes the sorted one.
family_selection(a, cli_cpu, cli_ram) ==
    IF a.pick_family
    THEN IF a.runner # None
         THEN IF ~HasRunner(a.runner_configs, a.runner[1])
              THEN Raise("ClickException")
              ELSE LET runner_config == RunnerConfigOf(a.runner_configs, a.runner[1])
                   IN  Return([patterns |-> None,
                               cpu |-> IF cli_cpu = None THEN runner_config.cpu
                                       ELSE cli_cpu,
                               ram |-> IF cli_ram = None THEN runner_config.ram
                                       ELSE cli_ram])
         ELSE Return([patterns |-> None, cpu |-> cli_cpu, ram |-> cli_ram])
    ELSE IF a.runner # None
    THEN IF ~HasRunner(a.runner_configs, a.runner[1])
         THEN Raise("ClickException")
         ELSE LET runner_config == RunnerConfigOf(a.runner_configs, a.runner[1])
              IN  Return([patterns |-> Some(runner_config.families),
                          cpu |-> runner_config.cpu, ram |-> runner_config.ram])
    ELSE IF Len(a.selectors) > 0
    THEN Return([patterns |-> Some(a.selectors), cpu |-> cli_cpu, ram |-> cli_ram])
    ELSE IF Len(a.runner_configs) > 0
    THEN Return([patterns |-> Some(SortedSet(all_patterns(a.runner_configs))),
                 cpu |-> cli_cpu, ram |-> cli_ram])
    ELSE Raise("ClickException")

\* family, from the parsed requirements on: the selection, --for-tmpfs, the
\* filter with the given max_price, and the globs when asked for.  What is
\* returned is what the command hands to its printing function.
family_output(a, cli_cpu, cli_ram, max_price) ==
    LET chosen == family_selection(a, cli_cpu, cli_ram)
    IN  IF chosen.raised # "" THEN chosen
        ELSE LET ram_req == IF a.for_tmpfs /\ chosen.ret.ram = None
                            THEN Some(Range(32, 99999))
                            ELSE chosen.ret.ram
                 arches_list == IF Len(a.arches) > 0 THEN Some(a.arches) ELSE None
                 filtered == filter_instances(a.instances, chosen.ret.patterns,
                                              chosen.ret.cpu, ram_req, arches_list,
                                              max_price, a.ebs_min, None)
             IN  Return([filtered |-> filtered,
                         glob_patterns |->
                             IF a.globs
                             THEN Some(synthesize_globs(filtered, filtered,
                                                        a.budget, None))
                             ELSE None])

\* Mutant of family: the filter is called without max_price.
family_filter_without_budget(a) ==
    LET cli_cpu == cli_requirement(a.cpu)
        cli_ram == cli_requirement(a.mem)
    IN  IF cli_cpu.raised # "" THEN cli_cpu
        ELSE IF cli_ram.raised # "" THEN cli_ram
        ELSE family_output(a, cli_cpu.ret, cli_ram.ret, None)

family(a) ==
    LET cli_cpu == cli_requirement(a.cpu)
        cli_ram == cli_requirement(a.mem)
    IN  IF cli_cpu.raised # "" THEN cli_cpu
        ELSE IF cli_ram.raised # "" THEN cli_ram
        ELSE family_output(a, cli_cpu.ret, cli_ram.ret, a.budget)

\* The rows of the instance table of the family command: two sizes of vCPUs
\* and three of memory, prices below, at and above 2, and one unknown price.
FamilyTable ==
    { BaseInstance,
      [BaseInstance EXCEPT !.api_name = <<"m", "5", "d", ".", "l">>,
                           !.vcpus = 4, !.memory_gb = 16, !.price = Some(3),
                           !.nvme = Some(TRUE)],
      [BaseInstance EXCEPT !.api_name = <<"c", "6", "g", ".", "x">>,
                           !.vcpus = 4, !.memory_gb = 32, !.arch = "arm64",
                           !.price = None],
      [BaseInstance EXCEPT !.api_name = <<"r", "7", ".", "l">>,
                           !.memory_gb = 32, !.price = Some(2)] }

\* runs-on.yml: no runner, or a runner with a cpu requirement and one with a
\* ram requirement.
FamilyRunnerConfigs ==
    { <<>>,
      << <<"general", [families |-> << <<"m", "5">> >>, cpu |-> Some(Exact(2)),
                       ram |-> None]>>,
         <<"memory", [families |-> << <<"r", "7", "*">>, <<"c", "6", "g">> >>,
                      cpu |-> None, ram |-> Some(Range(16, 32))]>> >> }

\* The texts of --cpu and --mem: absent, empty, exact, a range, not a range.
CpuTexts ==
    {None, Some(<<>>), Some(<<"4">>), Some(<<"2", ":", " ", "4">>), Some(<<":">>)}

MemTexts == {None, Some(<<"8", ":", "1", "6">>)}

FamilyArgs ==
    [selectors : {<<>>, << <<"m", "5", "*">> >>,
                  << <<"m", "5", "d">>, <<"c", "6", "*">> >>},
     cpu : CpuTexts, mem : MemTexts,
     runner : {None, Some("general"), Some("memory"), Some("missing")},
     pick_family : BOOLEAN, arches : {<<>>}, budget : {None, Some(2)},
     ebs_min : {None}, for_tmpfs : BOOLEAN, globs : BOOLEAN,
     runner_configs : FamilyRunnerConfigs,
     instances : SeqsUpTo(FamilyTable, MaxTableLen)]

\* Instance names for the refinement of synthesize_globs: a one-character
\* family, two variants of the prefix m5, and a family whose second character
\* is no letter or digit.
RefineNames ==
    { <<"m", ".", "l">>,
      <<"m", "5", ".", "l">>,
      <<"m", "5", "d", ".", "l">>,
      <<"m", "-", ".", "l">> }

\* Selected instances under and over the budget; universe instances with and
\* without local NVMe.
RefineSelectedPool == [api_name : RefineNames, price : {Some(1), Some(2)}, nvme : {None}]

RefineUniversePool ==
    [api_name : RefineNames, price : {Some(2)}, nvme : {Some(TRUE), Some(FALSE)}]

\* The pairs of lists that hold at most n instances together.
RefineLists(n) ==
    UNION {SeqsUpTo(RefineSelectedPool, k) \X SeqsUpTo(RefineUniversePool, n - k) :
               k \in 0..n}

\* Pattern strings of _glob_subsumes: letters, digits and '.', with or without
\* a trailing '*'.
GlobChars == {"m", "5", "."}

GlobTexts ==
    SeqsUpTo(GlobChars, MaxGlobLen)
        \cup {body \o <<"*">> : body \in SeqsUpTo(GlobChars, MaxGlobLen)}

SubsumesArgs == [broader : GlobTexts, narrower : GlobTexts]

----------------------------------------------------------------------------
(* The calls.                                                              *)

SynthesizeGlobs ==
    /\ pc = "start"
    /\ result' = candidates(selected, universe, budget, nvme)
    /\ final' = remove_subsumed(result')
    /\ pc' = "done"
    /\ UNCHANGED <<selected, universe, budget, nvme, api_name, pattern, matched>>
    /\ UNCHANGED <<called, args, ret, raised>>

MatchesFamilyPattern ==
    /\ pc = "start"
    /\ matched' = matches_family_pattern(api_name, pattern)
    /\ pc' = "done"
    /\ UNCHANGED <<selected, universe, budget, nvme, result, final, api_name, pattern>>
    /\ UNCHANGED <<called, args, ret, raised>>

\* The other calls: the arguments are in args, the outcome goes to ret and raised.
Call(fn, outcome) ==
    /\ pc = "start"
    /\ called' = fn
    /\ ret' = outcome.ret
    /\ raised' = outcome.raised
    /\ pc' = "done"
    /\ UNCHANGED <<selected, universe, budget, nvme, result, final, api_name,
                   pattern, matched, args>>

FilterInstances ==
    Call("filter_instances",
         Return(filter_instances(args.instances, args.patterns, args.cpu, args.ram,
                                 args.arches, args.max_price, args.ebs_min,
                                 args.nvme)))

FindMatchingRunners ==
    Call("find_matching_runners",
         Return(find_matching_runners(args.instance, args.runner_configs)))

GetRunnerPriceRange ==
    Call("get_runner_price_range",
         Return(get_runner_price_range(args.runner_config, args.instances)))

RequirementMatches ==
    Call("Requirement.matches",
         Return(Requirement_matches([min_val |-> args.min_val, max_val |-> args.max_val],
                                    args.value)))

GetFamilyPrefix ==
    Call("get_family_prefix", Return(get_family_prefix(args.api_name)))

InferArch == Call("infer_arch", Return(infer_arch(args.api_name)))

GetInstanceCategory ==
    Call("get_instance_category", get_instance_category(args.api_name))

\* load_instances stores _infer_arch(api_name) as the arch of the row.
LoadInferArch == Call("_infer_arch", Return(_infer_arch(args.api_name)))

Family == Call("family", family(args))

GlobSubsumes ==
    Call("_glob_subsumes", Return(_glob_subsumes(args.broader, args.narrower)))

\* The state before one of the other calls, with arguments from the set A.
InitCall(A) ==
    /\ pc = "start"
    /\ selected = <<>>
    /\ universe = <<>>
    /\ budget = None
    /\ nvme = None
    /\ result = <<>>
    /\ final = <<>>
    /\ api_name = <<>>
    /\ pattern = <<>>
    /\ matched = FALSE
    /\ called = ""
    /\ args \in A
    /\ ret = <<>>
    /\ raised = ""

InitFilter == InitCall(FilterArgs)

NextFilter == FilterInstances

SpecFilter == InitFilter /\ [][NextFilter]_vars

InitRunners == InitCall(RunnerArgs)

NextRunners == FindMatchingRunners

SpecRunners == InitRunners /\ [][NextRunners]_vars

InitPriceRange == InitCall(PriceRangeArgs)

NextPriceRange == GetRunnerPriceRange

SpecPriceRange == InitPriceRange /\ [][NextPriceRange]_vars

InitRequirement == InitCall(RequirementArgs)

NextRequirement == RequirementMatches

SpecRequirement == InitRequirement /\ [][NextRequirement]_vars

InitInfer == InitCall(InferArgs)

NextInfer == GetFamilyPrefix \/ InferArch \/ GetInstanceCategory \/ LoadInferArch

SpecInfer == InitInfer /\ [][NextInfer]_vars

InitFamily == InitCall(FamilyArgs)

NextFamily == Family

SpecFamily == InitFamily /\ [][NextFamily]_vars

InitSubsumes == InitCall(SubsumesArgs)

NextSubsumes == GlobSubsumes

SpecSubsumes == InitSubsumes /\ [][NextSubsumes]_vars

\* synthesize_globs on every input of the bounded sets.
InitSynth ==
    /\ pc = "start"
    /\ \E lists \in InputLists(MaxInstances) :
           /\ selected = lists[1]
           /\ universe = lists[2]
    /\ budget \in Budgets
    /\ nvme \in OptBool
    /\ result = <<>>
    /\ final = <<>>
    /\ api_name = <<>>
    /\ pattern = <<>>
    /\ matched = FALSE
    /\ called = ""
    /\ args = <<>>
    /\ ret = <<>>
    /\ raised = ""

NextSynth == SynthesizeGlobs

SpecSynth == InitSynth /\ [][NextSynth]_vars

\* synthesize_globs on the inputs of the refinement.
InitRefine ==
    /\ pc = "start"
    /\ \E lists \in RefineLists(MaxRefineLen) :
           /\ selected = lists[1]
           /\ universe = lists[2]
    /\ budget \in Budgets
    /\ nvme \in {None, Some(TRUE)}
    /\ result = <<>>
    /\ final = <<>>
    /\ api_name = <<>>
    /\ pattern = <<>>
    /\ matched = FALSE
    /\ called = ""
    /\ args = <<>>
    /\ ret = <<>>
    /\ raised = ""

NextRefine == SynthesizeGlobs

SpecRefine == InitRefine /\ [][NextRefine]_vars

\* matches_family_pattern on every name and pattern of the bounded sets.
InitMatch ==
    /\ pc = "start"
    /\ selected = <<>>
    /\ universe = <<>>
    /\ budget = None
    /\ nvme = None
    /\ result = <<>>
    /\ final = <<>>
    /\ api_name \in SeqsUpTo(NameChars, MaxNameLen)
    /\ pattern \in SeqsUpTo(PatternChars, MaxPatternLen)
    /\ matched = FALSE
    /\ called = ""
    /\ args = <<>>
    /\ ret = <<>>
    /\ raised = ""

NextMatch == MatchesFamilyPattern

SpecMatch == InitMatch /\ [][NextMatch]_vars

----------------------------------------------------------------------------
(* Vocabulary of the properties, stated without the operators of the code.  *)

Done == pc = "done"

\* The api_names of a list of instances.
NamesOf(insts) == {insts[i].api_name : i \in 1..Len(insts)}

IsWildcard(g) == Len(g) > 0 /\ g[Len(g)] = "*"

\* The entries of the returned list, and the candidates appended to `result`.
Returned == ToSet(final)

Emitted == ToSet(result)

\* Two characters equal up to letter case.
SameChar(a, b) ==
    \/ a = b
    \/ \E i \in DOMAIN UpperCase : {a, b} = {UpperCase[i], LowerCase[i]}

\* s begins with p, compared case-insensitively.
BeginsWithNoCase(s, p) ==
    /\ Len(p) <= Len(s)
    /\ \A i \in 1..Len(p) : SameChar(s[i], p[i])

EqualNoCase(s, t) == Len(s) = Len(t) /\ BeginsWithNoCase(s, t)

LetterOrDigit(c) ==
    c \in {Digits[i] : i \in DOMAIN Digits}
          \cup {UpperCase[i] : i \in DOMAIN UpperCase}
          \cup {LowerCase[i] : i \in DOMAIN LowerCase}

\* The text of s before its first '.' (all of s when it has none).
FamilyOf(s) ==
    LET dots == {i \in 1..Len(s) : s[i] = "."}
    IN  IF dots = {} THEN s
        ELSE SubSeq(s, 1, (CHOOSE i \in dots : \A j \in dots : i <= j) - 1)

\* The first two characters of the family of s.
TwoCharPrefix(s) ==
    LET f == FamilyOf(s) IN SubSeq(f, 1, IF Len(f) < 2 THEN Len(f) ELSE 2)

\* The pattern p without its trailing '*' characters.
CleanOf(p) ==
    LET n == CHOOSE k \in 0..Len(p) :
                 /\ k = 0 \/ p[k] # "*"
                 /\ \A j \in (k + 1)..Len(p) : p[j] = "*"
    IN  SubSeq(p, 1, n)

\* The known prices of the selected instances that the entry g matches.
SelectedPricesMatching(g) ==
    {selected[i].price[1] :
        i \in {j \in 1..Len(selected) :
                  /\ selected[j].price # None
                  /\ matches_family_pattern(selected[j].api_name, g)}}

\* The universe instances the entry g matches.
UniverseMatching(g) ==
    {universe[i] :
        i \in {j \in 1..Len(universe) :
                  matches_family_pattern(universe[j].api_name, g)}}

IsNvme(inst) == inst.nvme = Some(TRUE)

----------------------------------------------------------------------------
(* Properties of synthesize_globs, under SpecSynth.                         *)

\* C1: full coverage.  Every selected instance (all names of the model have
\* the form <letters/digits>.<size>, all prices are non-negative) is matched
\* by at least one entry of the returned list, whatever the universe, budget
\* and nvme setting.
C1_FullCoverage ==
    Done =>
        \A i \in 1..Len(selected) :
            \E g \in Returned : matches_family_pattern(selected[i].api_name, g)

\* A returned list with an exact name and a wildcard, from which subsumption
\* removal dropped a candidate, covering three selected instances.
C1_Witness ==
    /\ Done
    /\ Len(selected) = 3
    /\ Returned # Emitted
    /\ \E g \in Returned : IsWildcard(g)
    /\ \E g \in Returned : ~IsWildcard(g)

\* C2 as stated: for selected a subset of the universe, the universe
\* instances matched by a returned pattern are exactly the selected ones.
C2_ExactlySelected ==
    (Done /\ NamesOf(selected) \subseteq NamesOf(universe)) =>
        {u.api_name : u \in UNION {UniverseMatching(g) : g \in Returned}}
            = NamesOf(selected)

\* C2, amended: for selected a subset of the universe, the matched universe
\* instances include every selected instance, and each matched instance has a
\* family that begins (case-insensitively) with the first two characters of
\* the family of some selected instance; unselected instances may be matched.
C2_SelectedWithinMatched ==
    (Done /\ NamesOf(selected) \subseteq NamesOf(universe)) =>
        LET matchedNames ==
                {u.api_name : u \in UNION {UniverseMatching(g) : g \in Returned}}
        IN  /\ NamesOf(selected) \subseteq matchedNames
            /\ \A n \in matchedNames :
                   \E s \in NamesOf(selected) :
                       BeginsWithNoCase(FamilyOf(n), TwoCharPrefix(s))

\* A selection inside the universe whose patterns also match an unselected
\* universe instance.
C2_Witness ==
    /\ Done
    /\ selected # <<>>
    /\ NamesOf(selected) \subseteq NamesOf(universe)
    /\ \E g \in Returned :
           \E u \in UniverseMatching(g) : u.api_name \notin NamesOf(selected)

\* C3 as stated: with a budget, every returned entry, wildcard or literal,
\* matches selected instances of known price <= budget only.
C3_EveryEntryWithinBudget ==
    (Done /\ budget # None) =>
        \A g \in Returned : \A p \in SelectedPricesMatching(g) : p <= budget[1]

\* C3, amended: with a budget, every returned wildcard pattern matches
\* selected instances of known price <= budget only; an exact-name literal of
\* the fallback carries no such guarantee.
C3_WildcardsWithinBudget ==
    (Done /\ budget # None) =>
        \A g \in Returned :
            IsWildcard(g) => \A p \in SelectedPricesMatching(g) : p <= budget[1]

\* A returned wildcard that matches a priced selected instance, beside a
\* selected instance over the budget.
C3_Witness ==
    /\ Done
    /\ budget # None
    /\ \E g \in Returned : IsWildcard(g) /\ SelectedPricesMatching(g) # {}
    /\ \E i \in 1..Len(selected) :
           selected[i].price # None /\ selected[i].price[1] > budget[1]

\* C4: with nvme=True every returned wildcard matches no non-NVMe instance of
\* the universe; the two-character prefix pattern of a selected instance is
\* not returned when it matches a non-NVMe universe instance, and is emitted
\* (appended to the candidates) when every universe instance it matches is
\* NVMe and the budget check on it passes.
C4_WildcardsOnlyNvme ==
    (Done /\ nvme = Some(TRUE)) =>
        /\ \A g \in Returned :
               IsWildcard(g) => \A u \in UniverseMatching(g) : IsNvme(u)
        /\ \A s \in NamesOf(selected) :
               LET prefixGlob == TwoCharPrefix(s) \o <<"*">>
                   allNvme == \A u \in UniverseMatching(prefixGlob) : IsNvme(u)
                   withinBudget ==
                       budget = None
                       \/ \A p \in SelectedPricesMatching(prefixGlob) : p <= budget[1]
               IN  /\ ~allNvme => prefixGlob \notin Returned
                   /\ (allNvme /\ withinBudget) => prefixGlob \in Emitted

\* nvme=True with a universe that holds an NVMe and a non-NVMe instance
\* sharing the two-character prefix of a selected instance: the prefix pattern
\* is refused and a narrower wildcard over NVMe matches is returned.
C4_Witness ==
    /\ Done
    /\ nvme = Some(TRUE)
    /\ \E s \in NamesOf(selected) :
           LET prefixGlob == TwoCharPrefix(s) \o <<"*">>
           IN  /\ \E u \in UniverseMatching(prefixGlob) : ~IsNvme(u)
               /\ \E u \in UniverseMatching(prefixGlob) : IsNvme(u)
               /\ prefixGlob \notin Returned
    /\ \E g \in Returned : IsWildcard(g) /\ UniverseMatching(g) # {}

C6_UniverseIgnoredUnlessNvme ==
    (Done /\ nvme # Some(TRUE)) =>
        /\ final = synthesize_globs(selected, <<>>, budget, nvme)
        /\ \A s \in NamesOf(selected) :
               LET prefixGlob == TwoCharPrefix(s) \o <<"*">>
               IN  (budget = None
                    \/ \A p \in SelectedPricesMatching(prefixGlob) : p <= budget[1])
                       => prefixGlob \in Emitted

\* A budget, nvme not True, and a universe instance dearer than the budget
\* that the returned prefix pattern matches.
C6_Witness ==
    /\ Done
    /\ nvme # Some(TRUE)
    /\ budget # None
    /\ \E s \in NamesOf(selected) :
           LET prefixGlob == TwoCharPrefix(s) \o <<"*">>
           IN  /\ prefixGlob \in Returned
               /\ SelectedPricesMatching(prefixGlob) # {}
               /\ \E u \in UniverseMatching(prefixGlob) :
                      u.price # None /\ u.price[1] > budget[1]

\* C7: no returned entry is subsumed by another returned entry, and a
\* wildcard candidate whose prefix properly extends the prefix of another
\* wildcard candidate is not returned.
C7_NoSubsumedEntry ==
    Done =>
        /\ \A a \in Returned : \A b \in Returned \ {a} : ~_glob_subsumes(a, b)
        /\ \A a \in Emitted : \A b \in Emitted :
               (/\ IsWildcard(a)
                /\ IsWildcard(b)
                /\ Len(CleanOf(a)) < Len(CleanOf(b))
                /\ SubSeq(CleanOf(b), 1, Len(CleanOf(a))) = CleanOf(a))
                   => b \notin Returned

\* Candidates m5d* and m5dn*, of which only m5d* is returned.
C7_Witness ==
    /\ Done
    /\ <<"m", "5", "d", "*">> \in Emitted
    /\ <<"m", "5", "d", "n", "*">> \in Emitted
    /\ <<"m", "5", "d", "*">> \in Returned
    /\ <<"m", "5", "d", "n", "*">> \notin Returned

\* C8: the returned list is in strictly ascending string order (sorted, no
\* duplicate), and is empty for an empty selection.
C8_SortedUnique ==
    Done =>
        /\ \A i \in 1..Len(final) : \A j \in 1..Len(final) :
               i < j => StrLess(final[i], final[j])
        /\ selected = <<>> => final = <<>>

\* A candidate emitted twice and returned once, in a list of two entries.
C8_Witness ==
    /\ Done
    /\ Len(final) = 2
    /\ \E i \in 1..Len(result) : \E j \in 1..Len(result) :
           i # j /\ result[i] = result[j]

----------------------------------------------------------------------------
(* Properties of matches_family_pattern, under SpecMatch.                   *)

\* C9: prefix matching.  For a non-empty name and a pattern whose text
\* without its trailing '*' characters (clean) holds no '.', the call returns
\* true exactly when the name begins, case-insensitively, with clean followed
\* by zero or more letters or digits and then a '.'; so the pattern and the
\* pattern followed by '*' match the same names.
C9_PrefixMatch ==
    (Done /\ api_name # <<>> /\ ~HasDot(CleanOf(pattern))) =>
        LET clean == CleanOf(pattern)
        IN  /\ matched <=>
                   /\ BeginsWithNoCase(api_name, clean)
                   /\ \E d \in (Len(clean) + 1)..Len(api_name) :
                          /\ api_name[d] = "."
                          /\ \A j \in (Len(clean) + 1)..(d - 1) :
                                 LetterOrDigit(api_name[j])
            /\ matched = matches_family_pattern(api_name, pattern \o <<"*">>)

\* A match of a non-empty prefix against a name of another letter case, with
\* a letter or digit between the prefix and the '.'.
C9_Witness ==
    /\ Done
    /\ matched
    /\ ~HasDot(CleanOf(pattern))
    /\ Len(CleanOf(pattern)) > 0
    /\ \E i \in 1..Len(CleanOf(pattern)) : api_name[i] # pattern[i]
    /\ api_name[Len(CleanOf(pattern)) + 1] # "."

\* C10: exact matching.  When the pattern without its trailing '*' characters
\* holds a '.', the call returns true exactly when the name equals that text
\* under case-insensitive comparison of the whole strings.
C10_ExactMatch ==
    (Done /\ HasDot(CleanOf(pattern))) =>
        (matched <=> EqualNoCase(api_name, CleanOf(pattern)))

\* An exact pattern with a trailing '*' that matches a name of another letter
\* case.
C10_Witness ==
    /\ Done
    /\ matched
    /\ HasDot(CleanOf(pattern))
    /\ IsWildcard(pattern)
    /\ api_name # CleanOf(pattern)

----------------------------------------------------------------------------
(* Properties of filter_instances, under SpecFilter.                        *)

Returns(fn) == pc = "done" /\ called = fn /\ raised = ""

\* The constraints of the call, each on one instance; a constraint whose
\* parameter is None holds of every instance.
SatPatterns(inst) ==
    args.patterns = None
    \/ \E k \in 1..Len(args.patterns[1]) :
           matches_family_pattern(inst.api_name, args.patterns[1][k])

SatCpu(inst) == args.cpu = None \/ Requirement_matches(args.cpu[1], inst.vcpus)

SatRam(inst) == args.ram = None \/ Requirement_matches(args.ram[1], inst.memory_gb)

SatArch(inst) == args.arches = None \/ inst.arch \in ToSet(args.arches[1])

SatPrice(inst) ==
    args.max_price = None
    \/ (inst.price # None /\ inst.price[1] < args.max_price[1])

SatEbs(inst) ==
    args.ebs_min = None
    \/ (inst.ebs_mbps # None /\ inst.ebs_mbps[1] >= args.ebs_min[1])

SatNvme(inst) ==
    args.nvme = None
    \/ (IF inst.nvme = None THEN FALSE ELSE inst.nvme[1]) = args.nvme[1]

\* The sequence of the elements of seq at the positions pos, in the order of seq.
AtPositions(seq, pos) ==
    [k \in 1..Cardinality(pos) |->
        seq[CHOOSE i \in pos : Cardinality({j \in pos : j <= i}) = k]]

\* a is a subsequence of b: a is b with some elements left out.
RECURSIVE IsSubsequence(_, _)
IsSubsequence(a, b) ==
    IF Len(a) = 0 THEN TRUE
    ELSE IF Len(b) = 0 THEN FALSE
    ELSE IF a[1] = b[1] THEN IsSubsequence(Tail(a), Tail(b))
    ELSE IsSubsequence(a, Tail(b))

\* The names of the constraints the call supplies.
Supplied ==
    {c \in {"patterns", "cpu", "ram", "arches", "max_price", "ebs_min", "nvme"} :
        args[c] # None}

\* C11: filter_instances returns exactly the instances of its input, in input
\* order, that satisfy every supplied constraint (a None constraint is
\* skipped): the name matches a pattern, cpu.matches(vcpus),
\* ram.matches(memory_gb), arch in arches, price known and < max_price,
\* ebs_mbps known and >= ebs_min, nvme flag (false when absent) equal to nvme.
C11_FilterExact ==
    Returns("filter_instances") =>
        ret = AtPositions(args.instances,
                  {i \in 1..Len(args.instances) :
                      LET inst == args.instances[i]
                      IN  /\ SatPatterns(inst) /\ SatCpu(inst) /\ SatRam(inst)
                          /\ SatArch(inst) /\ SatPrice(inst) /\ SatEbs(inst)
                          /\ SatNvme(inst)})

\* All seven constraints supplied; of two instances the first is dropped and
\* the second is returned.
C11_Witness ==
    /\ Returns("filter_instances")
    /\ Cardinality(Supplied) = 7
    /\ Len(args.instances) = 2
    /\ ret = <<args.instances[2]>>
    /\ args.instances[1] # args.instances[2]

\* The constraint sets that supply a proper subset of the constraints of the
\* call, with the same values.
Weaker ==
    {w \in [patterns : {None, args.patterns}, cpu : {None, args.cpu},
            ram : {None, args.ram}, arches : {None, args.arches},
            max_price : {None, args.max_price}, ebs_min : {None, args.ebs_min},
            nvme : {None, args.nvme}] :
        \E c \in Supplied : w[c] = None}

FilterUnder(w) ==
    filter_instances(args.instances, w.patterns, w.cpu, w.ram, w.arches,
                     w.max_price, w.ebs_min, w.nvme)

\* C12: filtering is monotonic.  The result under the constraints of the call
\* is a subsequence of the result under any constraint set that supplies
\* fewer of them (same values), so it is never longer.
C12_Monotonic ==
    Returns("filter_instances") =>
        \A w \in Weaker :
            LET weaker == FilterUnder(w)
            IN  IsSubsequence(ret, weaker) /\ Len(ret) <= Len(weaker)

\* A call with several constraints whose non-empty result is strictly
\* shorter than the result with one constraint fewer.
C12_Witness ==
    /\ Returns("filter_instances")
    /\ Cardinality(Supplied) >= 3
    /\ Len(ret) = 1
    /\ \E w \in Weaker :
           /\ Cardinality({c \in Supplied : w[c] = None}) = 1
           /\ Len(FilterUnder(w)) = 2

\* C13: an instance of unknown price is excluded whenever max_price is
\* supplied, an instance of unknown ebs_mbps whenever ebs_min is supplied,
\* whatever the bound (0 included); the call returns without raising; and
\* when the bound is not supplied the unknown value excludes nothing: the
\* instance is kept if it satisfies the other constraints.
C13_UnknownExcluded ==
    (pc = "done" /\ called = "filter_instances") =>
        /\ raised = ""
        /\ \A i \in 1..Len(args.instances) :
               LET inst == args.instances[i]
               IN  /\ (inst.price = None /\ args.max_price # None)
                          => inst \notin ToSet(ret)
                   /\ (inst.ebs_mbps = None /\ args.ebs_min # None)
                          => inst \notin ToSet(ret)
                   /\ (/\ inst.price = None \/ inst.ebs_mbps = None
                       /\ args.max_price = None
                       /\ args.ebs_min = None
                       /\ SatPatterns(inst) /\ SatCpu(inst) /\ SatRam(inst)
                       /\ SatArch(inst) /\ SatNvme(inst))
                          => inst \in ToSet(ret)

\* max_price = 0 alone: the instance of unknown price is dropped; the same
\* list also holds an instance of unknown ebs_mbps.
C13_Witness ==
    /\ Returns("filter_instances")
    /\ args.max_price = Some(0)
    /\ Supplied = {"max_price"}
    /\ \E i \in 1..Len(args.instances) : args.instances[i].price = None
    /\ \E i \in 1..Len(args.instances) : args.instances[i].ebs_mbps = None
    /\ ret = <<>>

\* C14: the pattern constraint holds of a name exactly when some pattern of
\* the list matches it, so never for the empty list: with patterns=[] the
\* result is empty for any input, with patterns=None no instance is dropped
\* on account of its name.
C14_AnyPattern ==
    Returns("filter_instances") =>
        /\ args.patterns = Some(<<>>) => ret = <<>>
        /\ \A i \in 1..Len(args.instances) :
               LET inst == args.instances[i]
                   others == /\ SatCpu(inst) /\ SatRam(inst) /\ SatArch(inst)
                             /\ SatPrice(inst) /\ SatEbs(inst) /\ SatNvme(inst)
               IN  /\ (args.patterns = None /\ others) => inst \in ToSet(ret)
                   /\ (args.patterns # None /\ others) =>
                          (inst \in ToSet(ret) <=>
                              \E p \in ToSet(args.patterns[1]) :
                                  matches_family_pattern(inst.api_name, p))

\* Two patterns, an instance matched by the second only and kept, another
\* matched by neither and dropped.
C14_Witness ==
    /\ Returns("filter_instances")
    /\ Supplied = {"patterns"}
    /\ Len(args.patterns[1]) = 2
    /\ Len(args.instances) = 2
    /\ ret = <<args.instances[1]>>
    /\ ~matches_family_pattern(args.instances[1].api_name, args.patterns[1][1])
    /\ ~\E p \in ToSet(args.patterns[1]) :
            matches_family_pattern(args.instances[2].api_name, p)

----------------------------------------------------------------------------
(* The empty name, under SpecMatch.                                         *)

\* C15: an empty or None instance name matches no pattern:
\* matches_family_pattern returns False for it whatever the pattern ('*' and
\* the empty pattern included), and does not raise.
C15_EmptyNameNoMatch ==
    (Done /\ api_name = <<>>) => (matched = FALSE)

\* The empty name against the pattern '*', which matches every name with a
\* family and a '.'.
C15_Witness ==
    /\ Done
    /\ api_name = <<>>
    /\ pattern = <<"*">>
    /\ ~matched

----------------------------------------------------------------------------
(* Properties of find_matching_runners, under SpecRunners.                  *)

\* The runner config cfg accepts the instance inst.
Accepts(cfg, inst) ==
    /\ \E p \in ToSet(cfg.families) : matches_family_pattern(inst.api_name, p)
    /\ cfg.cpu = None \/ Requirement_matches(cfg.cpu[1], inst.vcpus)
    /\ cfg.ram = None \/ Requirement_matches(cfg.ram[1], inst.memory_gb)

\* C16: find_matching_runners returns, in configuration order, exactly the
\* names of the runners whose family patterns match the instance name (at
\* least one) and whose cpu and ram requirements, when present, match vcpus
\* and memory_gb; a runner with an empty family list is never returned.
C16_MatchingRunners ==
    Returns("find_matching_runners") =>
        LET items == args.runner_configs
            kept == AtPositions(items,
                        {i \in 1..Len(items) : Accepts(items[i][2], args.instance)})
        IN  /\ ret = [k \in 1..Len(kept) |-> kept[k][1]]
            /\ \A i \in 1..Len(items) :
                   items[i][2].families = <<>> => items[i][1] \notin ToSet(ret)

\* Two runners with the same family patterns: the first, refused on its ram
\* requirement, is left out and the second is returned.
C16_Witness ==
    /\ Returns("find_matching_runners")
    /\ Len(args.runner_configs) = 2
    /\ args.runner_configs[1][2].families # <<>>
    /\ args.runner_configs[1][2].families = args.runner_configs[2][2].families
    /\ args.runner_configs[1][2].ram # None
    /\ args.runner_configs[2][2].ram = None
    /\ ret = <<args.runner_configs[2][1]>>

----------------------------------------------------------------------------
(* Properties of get_runner_price_range, under SpecPriceRange.              *)

\* C17: get_runner_price_range returns (None, None, None, None) when the
\* runner has no family patterns or no instance of known price matches its
\* patterns and cpu/ram requirements; otherwise the least and the greatest
\* known price over those instances (min_price <= max_price), with the name of
\* the first instance of the least price and of the last instance of the
\* greatest price, in input order.
C17_PriceRange ==
    Returns("get_runner_price_range") =>
        LET cfg == args.runner_config
            insts == args.instances
            fams == IF cfg.families = None THEN <<>> ELSE cfg.families[1]
            M == {i \in 1..Len(insts) :
                     /\ Accepts([families |-> fams, cpu |-> cfg.cpu, ram |-> cfg.ram],
                                insts[i])
                     /\ insts[i].price # None}
        IN  IF fams = <<>> \/ M = {}
            THEN ret = <<None, None, None, None>>
            ELSE LET lo == CHOOSE x \in {insts[i].price[1] : i \in M} :
                               \A i \in M : x <= insts[i].price[1]
                     hi == CHOOSE x \in {insts[i].price[1] : i \in M} :
                               \A i \in M : insts[i].price[1] <= x
                     first == CHOOSE i \in M :
                                  /\ insts[i].price[1] = lo
                                  /\ \A j \in M : insts[j].price[1] = lo => i <= j
                     last == CHOOSE i \in M :
                                 /\ insts[i].price[1] = hi
                                 /\ \A j \in M : insts[j].price[1] = hi => j <= i
                 IN  /\ ret = <<Some(lo), Some(hi), Some(insts[first].api_name),
                                Some(insts[last].api_name)>>
                     /\ lo <= hi

\* Three matching instances under a cpu requirement, the two dearest of equal
\* price and different names: the later one names the maximum.
C17_Witness ==
    /\ Returns("get_runner_price_range")
    /\ args.runner_config.cpu # None
    /\ Len(args.instances) = 3
    /\ args.instances[2].price = args.instances[3].price
    /\ args.instances[2].api_name # args.instances[3].api_name
    /\ ret[1] # ret[2]
    /\ ret[2] = args.instances[3].price
    /\ ret[3] = Some(args.instances[1].api_name)
    /\ ret[4] = Some(args.instances[3].api_name)

----------------------------------------------------------------------------
(* Properties of Requirement.matches, under SpecRequirement.                *)

\* C18: Requirement.matches(value) is true exactly when max_val is absent and
\* value equals min_val, or max_val is present and min_val <= value <= max_val
\* (both bounds inclusive); a Requirement with max_val < min_val matches no
\* value.
C18_RequirementMatches ==
    Returns("Requirement.matches") =>
        /\ ret <=> \/ args.max_val = None /\ args.value = args.min_val
                   \/ /\ args.max_val # None
                      /\ args.min_val <= args.value
                      /\ args.value <= args.max_val[1]
        /\ (args.max_val # None /\ args.max_val[1] < args.min_val) => ~ret

\* A range matched at its upper bound, which lies above its lower bound.
C18_Witness ==
    /\ Returns("Requirement.matches")
    /\ args.max_val # None
    /\ args.min_val < args.max_val[1]
    /\ args.value = args.max_val[1]
    /\ ret

----------------------------------------------------------------------------
(* Properties of the inference functions, under SpecInfer.                  *)

\* The lower-cased family prefix of the name of the call, and its characters
\* after position 2.
LowerFamily == Lower(FamilyOf(args.api_name))

AfterGeneration == SubSeq(LowerFamily, 3, Len(LowerFamily))

\* C19: infer_arch returns one of x86_64, amd64, arm64, decided on the
\* lower-cased family prefix: x86_64 when it has fewer than 2 characters;
\* otherwise arm64 when the characters after position 2 contain 'g' or the
\* prefix starts with 'a1' or 't4g'; otherwise amd64 when those characters
\* contain 'a'; otherwise x86_64.  arm64 wins when both rules apply.
C19_InferArch ==
    Returns("infer_arch") =>
        /\ ret \in {"x86_64", "amd64", "arm64"}
        /\ ret = IF Len(LowerFamily) < 2 THEN "x86_64"
                 ELSE IF \/ "g" \in ToSet(AfterGeneration)
                         \/ SubSeq(LowerFamily, 1, 2) = <<"a", "1">>
                         \/ /\ Len(LowerFamily) >= 3
                            /\ SubSeq(LowerFamily, 1, 3) = <<"t", "4", "g">>
                      THEN "arm64"
                 ELSE IF "a" \in ToSet(AfterGeneration) THEN "amd64"
                 ELSE "x86_64"

\* A family written with an upper-case G whose characters after position 2
\* hold both 'a' and 'g': arm64.
C19_Witness ==
    /\ Returns("infer_arch")
    /\ "G" \in ToSet(args.api_name)
    /\ "a" \in ToSet(AfterGeneration)
    /\ "g" \in ToSet(AfterGeneration)
    /\ ret = "arm64"

\* The category table, by first character.
TableCategory(c) ==
    CASE c = "c" -> "compute"
      [] c = "m" -> "general"
      [] c \in {"r", "x"} -> "memory"
      [] c = "t" -> "burstable"
      [] c \in {"i", "h", "d"} -> "storage"
      [] c = "z" -> "high-freq"
      [] c \in {"g", "p"} -> "gpu"
      [] c = "f" -> "fpga"
      [] c = "v" -> "video"
      [] OTHER -> "other"

\* C20: get_instance_category returns 'ml-inference' when the lower-cased
\* family prefix starts with 'inf' and 'general' when it starts with 'a1',
\* before the table is consulted; otherwise the table entry of the first
\* character, and 'other' when the first character is not in the table.
C20_InstanceCategory ==
    Returns("get_instance_category") =>
        ret = IF Len(LowerFamily) >= 3 /\ SubSeq(LowerFamily, 1, 3) = <<"i", "n", "f">>
              THEN "ml-inference"
              ELSE IF Len(LowerFamily) >= 2 /\ SubSeq(LowerFamily, 1, 2) = <<"a", "1">>
                   THEN "general"
              ELSE TableCategory(LowerFamily[1])

\* The family 'inf', whose first character the table maps to storage.
C20_Witness ==
    /\ Returns("get_instance_category")
    /\ args.api_name = <<"i", "n", "f", ".">>
    /\ ret = "ml-inference"
    /\ TableCategory("i") = "storage"

\* C21: the inference functions are total over strings: get_family_prefix,
\* infer_arch and get_instance_category return a value and never raise, for
\* every name; a name whose family prefix is empty (the empty name, a name
\* that begins with '.') is classified 'other' by get_instance_category.
C21_InferenceTotal ==
    (Done /\ called \in {"get_family_prefix", "infer_arch", "get_instance_category"}) =>
        /\ raised = ""
        /\ (called = "get_instance_category" /\ Len(LowerFamily) = 0) => ret = "other"

----------------------------------------------------------------------------
(* Properties of the family command, under SpecFamily.                      *)

\* An option text that states a requirement: given, and not empty.
Given(text) == text # None /\ Len(text[1]) > 0

\* The requirement the text states.
Stated(text) == parse_cli_requirement(text[1]).ret

\* The instances the command hands to its output.
Filtered == ret.filtered

\* C22: whenever --cpu or --mem is given on the command line, every instance
\* passed to the output satisfies that requirement, in each way of choosing
\* the patterns: selectors, --runner, --pick-family (with or without
\* --runner), and the patterns of all configured runners.
C22_CliRequirementsHonoured ==
    Returns("family") =>
        \A i \in 1..Len(Filtered) :
            /\ Given(args.cpu) =>
                   Requirement_matches(Stated(args.cpu), Filtered[i].vcpus)
            /\ Given(args.mem) =>
                   Requirement_matches(Stated(args.mem), Filtered[i].memory_gb)

\* The list the command hands to print_globs.
GlobPatterns == ToSet(ret.glob_patterns[1])

\* C28: on the `family --globs` path the refinement never triggers: the
\* instances are filtered with max_price=budget and synthesize_globs gets the
\* filtered list as selection and as universe, without nvme; so under a budget
\* every selected instance has a known price strictly below it, and the
\* returned list holds only patterns '<first two characters of the family>*',
\* never a variant pattern or an exact name.
C28_GlobsPathPrefixOnly ==
    (Returns("family") /\ args.globs) =>
        /\ args.budget # None =>
               \A i \in 1..Len(Filtered) :
                   /\ Filtered[i].price # None
                   /\ Filtered[i].price[1] < args.budget[1]
        /\ \A g \in GlobPatterns :
               \E i \in 1..Len(Filtered) :
                   g = TwoCharPrefix(Filtered[i].api_name) \o <<"*">>
        /\ \A i \in 1..Len(Filtered) :
               Filtered[i].api_name \notin GlobPatterns

\* Under budget 2 the table holds a variant at price 3 next to the cheap one:
\* the filter drops it, and the pattern of the prefix is returned.
C28_Witness ==
    /\ Returns("family")
    /\ args.globs
    /\ args.budget = Some(2)
    /\ \E i \in 1..Len(args.instances) :
           /\ args.instances[i].api_name = <<"m", "5", "d", ".", "l">>
           /\ args.instances[i].price = Some(3)
    /\ NamesOf(Filtered) = {<<"m", "5", ".", "l">>}
    /\ GlobPatterns = {<<"m", "5", "*">>}

----------------------------------------------------------------------------
(* Properties of the refinement of synthesize_globs, under SpecRefine.      *)

\* The pattern g passes the constraints of the call: under a budget no
\* selected instance it matches has a known price above the budget, and under
\* nvme=True no universe instance it matches lacks local NVMe.
Passes(g) ==
    /\ budget # None => \A price \in SelectedPricesMatching(g) : price <= budget[1]
    /\ nvme = Some(TRUE) => \A u \in UniverseMatching(g) : IsNvme(u)

Star(text) == text \o <<"*">>

\* The places where the refinement appends a candidate, with the candidate:
\* a prefix whose pattern passes; a family variant whose pattern passes while
\* the pattern of its prefix does not; a selected instance (by position) when
\* neither the pattern of its prefix nor that of its family passes.
PrefixSites ==
    {<<"prefix", TwoCharPrefix(n), Star(TwoCharPrefix(n))>> :
        n \in {m \in NamesOf(selected) : Passes(Star(TwoCharPrefix(m)))}}

VariantSites ==
    {<<"variant", FamilyOf(n), Star(FamilyOf(n))>> :
        n \in {m \in NamesOf(selected) :
                  /\ ~Passes(Star(TwoCharPrefix(m)))
                  /\ Passes(Star(FamilyOf(m)))}}

LiteralSites ==
    {<<"literal", i, selected[i].api_name>> :
        i \in {j \in 1..Len(selected) :
                  /\ ~Passes(Star(TwoCharPrefix(selected[j].api_name)))
                  /\ ~Passes(Star(FamilyOf(selected[j].api_name)))}}

Sites == PrefixSites \cup VariantSites \cup LiteralSites

\* C23: fixed-depth refinement.  For each group of selected instances sharing
\* the first two characters of the family, the candidates emitted before
\* deduplication are exactly the pattern '<prefix>*' when it is valid;
\* otherwise, per family variant of the group, '<variant>*' when that is
\* valid and one exact api_name per selected instance of the variant when it
\* is not.  No variant pattern or literal is emitted for a group whose prefix
\* pattern is valid.
C23_FixedDepthRefinement ==
    Done =>
        /\ \A g \in Emitted \cup {site[3] : site \in Sites} :
               Cardinality({k \in 1..Len(result) : result[k] = g})
                   = Cardinality({site \in Sites : site[3] = g})
        /\ \A n \in NamesOf(selected) :
               Passes(Star(TwoCharPrefix(n))) =>
                   /\ n \notin Emitted
                   /\ Len(FamilyOf(n)) > 2 => Star(FamilyOf(n)) \notin Emitted

\* One group gets its prefix pattern, another a variant pattern and the
\* literals of a second variant, one literal per selected instance.
C23_Witness ==
    /\ Done
    /\ \E site \in PrefixSites : site[3] \in Emitted
    /\ \E site \in VariantSites : site[3] \in Emitted /\ Star(site[2]) # Star(Take(site[2], 2))
    /\ \E a \in LiteralSites : a[3] \in Emitted

\* The pattern texts at hand in a state: the candidates, the names of the
\* instances, and the prefix and variant patterns of those names.
Texts ==
    LET names == NamesOf(selected) \cup NamesOf(universe)
    IN  Emitted \cup names \cup {Star(FamilyOf(n)) : n \in names}
                \cup {Star(TwoCharPrefix(n)) : n \in names}

\* C24: exact names neither subsume nor are subsumed: _glob_subsumes(A, B) is
\* false whenever A does not end in '*', and whenever B contains '.' and does
\* not end in '*'; hence every exact name emitted by the literal fallback is
\* in the returned list, whatever wildcard patterns are emitted with it.
C24_ExactNamesKept ==
    Done =>
        /\ \A a \in Texts : \A b \in Texts :
               /\ ~IsWildcard(a) => ~_glob_subsumes(a, b)
               /\ (HasDot(b) /\ ~IsWildcard(b)) => ~_glob_subsumes(a, b)
        /\ \A site \in LiteralSites : site[3] \in Emitted /\ site[3] \in Returned

\* The literal m-.l is returned next to the pattern m*, whose text before the
\* '*' is the beginning of the literal's.
C24_Witness ==
    /\ Done
    /\ \E site \in LiteralSites : site[3] = <<"m", "-", ".", "l">>
    /\ <<"m", "-", ".", "l">> \in Returned
    /\ <<"m", "*">> \in Returned

\* A name of the form <letters/digits>.<size>.
WellFormedName(n) ==
    /\ HasDot(n)
    /\ Len(FamilyOf(n)) > 0
    /\ Len(FamilyOf(n)) + 1 < Len(n)
    /\ \A i \in 1..Len(FamilyOf(n)) : LetterOrDigit(n[i])

\* The exact names of the literal fallback.
Literals == {site[3] : site \in LiteralSites}

\* C26: for selected names of the form <letters/digits>.<size> with
\* non-negative prices, no exact-name literal of the returned list is matched
\* by a wildcard pattern of the same returned list.
C26_LiteralsNotRedundant ==
    (Done /\ \A n \in NamesOf(selected) : WellFormedName(n)) =>
        \A literal \in Literals \cap Returned :
            \A g \in Returned :
                IsWildcard(g) => ~matches_family_pattern(literal, g)

\* A literal and a variant pattern of the same prefix group are returned: the
\* pattern does not match the literal.
C26_Witness ==
    /\ Done
    /\ \A n \in NamesOf(selected) : WellFormedName(n)
    /\ \E literal \in Literals \cap Returned :
           \E g \in Returned :
               /\ IsWildcard(g)
               /\ TwoCharPrefix(literal) = Take(CleanOf(g), 2)
               /\ ~matches_family_pattern(literal, g)

\* One list for each set of instances: its elements, each once, in an order
\* that depends on the set alone.
ListOf(S) == CHOOSE q \in [1..Cardinality(S) -> S] : ToSet(q) = S

\* C27: synthesize_globs is determined by the sets of its inputs: for fixed
\* budget and nvme, reordering `selected` or `universe`, or repeating an
\* instance in either, never changes the returned list.  (Every list with the
\* same elements returns what the one list chosen for the set returns.)
C27_DeterminedBySets ==
    Done =>
        final = synthesize_globs(ListOf(ToSet(selected)), ListOf(ToSet(universe)),
                                 budget, nvme)

\* A selection of two instances that repeats one and does not begin with the
\* list chosen for its set; a candidate is emitted twice and returned once.
C27_Witness ==
    /\ Done
    /\ Len(selected) > Cardinality(ToSet(selected))
    /\ Cardinality(ToSet(selected)) > 1
    /\ SubSeq(selected, 1, Cardinality(ToSet(selected))) # ListOf(ToSet(selected))
    /\ Len(result) > Cardinality(Emitted)
    /\ Len(final) = Cardinality(Emitted)

----------------------------------------------------------------------------
(* Properties of _glob_subsumes, under SpecSubsumes.                        *)

\* The instance names a pattern is tried on.
GlobNames == SeqsUpTo(GlobChars, MaxGlobLen)

\* C25: subsumption is sound with respect to matching: for all pattern
\* strings A and B (letters, digits, '.', optional trailing '*'), whenever
\* _glob_subsumes(A, B) is true, every instance name matched by B under
\* matches_family_pattern is also matched by A.
C25_SubsumptionSound ==
    (Returns("_glob_subsumes") /\ ret) =>
        \A name \in GlobNames :
            matches_family_pattern(name, args.narrower)
                => matches_family_pattern(name, args.broader)

----------------------------------------------------------------------------
(* The trailing '*' characters of a pattern, under SpecMatch.               *)

\* The pattern ends in two or more '*'.
EndsWithTwoStars(p) == Len(p) >= 2 /\ p[Len(p)] = "*" /\ p[Len(p) - 1] = "*"

\* The pattern without its last character.
WithoutLast(p) == SubSeq(p, 1, Len(p) - 1)

\* The name is matched by the text taken as clean pattern, its characters as
\* literal text: equal to it up to letter case when the text holds a '.',
\* otherwise beginning with it, then letters or digits, then a '.'.
MatchedByText(name, text) ==
    IF HasDot(text) THEN EqualNoCase(name, text)
    ELSE /\ BeginsWithNoCase(name, text)
         /\ \E d \in (Len(text) + 1)..Len(name) :
                /\ name[d] = "."
                /\ \A j \in (Len(text) + 1)..(d - 1) : LetterOrDigit(name[j])

\* C29: matches_family_pattern removes exactly one trailing '*' from the
\* pattern to form the clean pattern: for a pattern ending in two or more
\* '*', only the last one is removed and the remaining '*' characters are
\* kept as literal text to be matched.
C29_OneStarRemoved ==
    (Done /\ api_name # <<>> /\ EndsWithTwoStars(pattern)) =>
        (matched <=> MatchedByText(api_name, WithoutLast(pattern)))

\* C29, amended: every trailing '*' is removed: for a pattern ending in two
\* or more '*', the clean pattern is the text before the first of them, and
\* no '*' is kept as literal text.
C29_AllStarsRemoved ==
    (Done /\ api_name # <<>> /\ EndsWithTwoStars(pattern)) =>
        /\ ~EndsWithStar(CleanOf(pattern))
        /\ matched <=> MatchedByText(api_name, CleanOf(pattern))

\* A pattern of a non-empty text and two '*' matches a name that holds no '*'.
C29_Witness ==
    /\ Done
    /\ EndsWithTwoStars(pattern)
    /\ Len(CleanOf(pattern)) > 0
    /\ matched
    /\ "*" \notin ToSet(api_name)

----------------------------------------------------------------------------
(* The architecture of a loaded instance, under SpecInfer.                  *)

\* C30: the architecture stored on each loaded instance equals the core
\* inference: config._infer_arch(name) returns the same value as
\* core.inference.infer_arch(name) for every name, with or without '.', in
\* any letter case, of any length.
C30_SameArch ==
    Returns("_infer_arch") => ret = infer_arch(args.api_name)

\* A name whose size part holds a 'g' while its family, written in upper
\* case, has none after the generation: both functions read the family only.
C30_Witness ==
    /\ Returns("_infer_arch")
    /\ HasDot(args.api_name)
    /\ "g" \in ToSet(Drop(args.api_name, Len(FamilyOf(args.api_name)) + 1))
    /\ "G" \in ToSet(FamilyOf(args.api_name))
    /\ "g" \notin ToSet(AfterGeneration)
    /\ ret = "x86_64"
    /\ infer_arch(args.api_name) = "x86_64"

====
